---- MODULE Spec2Model ----
(***************************************************************************)
(* A model of generate.py: the SinusoidDataSet class.                      *)
(*                                                                         *)
(* Tensors are sequences (1-based); Python indices are 0-based and may be  *)
(* negative, and are converted by InRange / At / Put.                      *)
(*                                                                         *)
(* Reals are fixed point.  Coefficients are counted in quarters (1.5 is 6, *)
(* 5.5 is 22, 0.25 is 1, 15.5 is 62): these values are dyadic, so storing  *)
(* a float64 draw in a float32 table row keeps the value.  Samples are in  *)
(* units of 1/4000; the sine is Bhaskara's rational              *)
(* approximation evaluated in integer arithmetic.                          *)
(***************************************************************************)
EXTENDS Integers, Sequences, FiniteSets, TLC

VARIABLES
    pc,                           \* where the constructor call stands
    args,                         \* the constructor's locals (size, sinusoids, save, varyFreq, target, ...)
    transform, n, T, fs, sinusoids, vary_freq,     \* self.* scalars
    data,                         \* self.data
    data_params_freq,             \* self.data_params_freq
    data_params_amp,              \* self.data_params_amp
    data_params_timevaryingfreq,  \* self.data_params_timevaryingfreq
    target,                       \* self.target: a reference to one of the tables, or unbound
    i,                            \* the loop variable of `for i in range(size)`
    files,                        \* what torch.save has written
    result                        \* the outcome of the call in progress, as its caller sees it

fields == <<transform, n, T, fs, sinusoids, vary_freq>>
tables == <<data, data_params_freq, data_params_amp, data_params_timevaryingfreq>>
vars == <<pc, args, transform, n, T, fs, sinusoids, vary_freq, data, data_params_freq,
          data_params_amp, data_params_timevaryingfreq, target, i, files, result>>

----------------------------------------------------------------------------
(* Bounds of the model *)

MaxSize == 2
MaxSinusoids == 2

(* Program constants, in quarters *)
max_freq == 62
AmpLo == 6
AmpHi == 22
FreqLo == 1
ChirpLo == 1

Sizes == -1 .. MaxSize
SinusoidCounts == -1 .. MaxSinusoids
Durations == {1, 2}
SampleRates == {1, 3}
Selectors == {"freq", "freq_vary", "amp", "frequency"}
Recognized == {"freq", "freq_vary", "amp"}

None == "None"
Unbound == "unbound"

----------------------------------------------------------------------------
(* Tensors *)

Zeros1Wide(c) == [b \in 1 .. (c + 1) |-> 0]

Zeros1(c) == [b \in 1 .. c |-> 0]

Zeros(r, c) == [a \in 1 .. r |-> Zeros1(c)]

InRangeNonNegative(idx, len) == 0 <= idx /\ idx < len

InRange(idx, len) == (0 - len) <= idx /\ idx < len

Pos(idx, len) == IF idx >= 0 THEN idx + 1 ELSE len + idx + 1

At(t, idx) == t[Pos(idx, Len(t))]

Put(t, idx, row) == [t EXCEPT ![Pos(idx, Len(t))] = row]

----------------------------------------------------------------------------
(* Numerics *)

(* np.linspace(0, stop, num): num equally spaced times over [0, stop], both
   ends included, each time the rational p / q *)
linspace(stop, num) ==
    [k \in 1 .. num |-> [p |-> (k - 1) * stop, q |-> IF num > 1 THEN num - 1 ELSE 1]]

(* 1000 * sin(pi * y / h) for 0 <= y <= h, after Bhaskara *)
HalfWave(y, h) == (1000 * 16 * y * (h - y)) \div (5 * h * h - 4 * y * (h - y))

(* 1000 * np.sin(2 * np.pi * a / b), b > 0, a >= 0 *)
Sin2Pi(a, b) ==
    LET x == 2 * (a % b)
    IN  IF x <= b THEN HalfWave(x, b) ELSE 0 - HalfWave(x - b, b)

RECURSIVE SumTo(_, _)
SumTo(term, k) == IF k <= 0 THEN 0 ELSE SumTo(term, k - 1) + term[k]

(* sum(amp_coefs[j] * np.sin(2*np.pi * freq_coefs[j] * v) for j in range(sinusoids)) *)
FixedSample(amp_coefs, freq_coefs, v) ==
    SumTo([j \in 1 .. Len(amp_coefs) |->
              amp_coefs[j] * Sin2Pi(freq_coefs[j] * v.p, 4 * v.q)], Len(amp_coefs))

(* sum(amp_coefs[j] * np.sin(2*np.pi * time_varying_coefs[j] * v * v) for j in range(sinusoids)) *)
VaryingSample(amp_coefs, time_varying_coefs, v) ==
    SumTo([j \in 1 .. Len(amp_coefs) |->
              amp_coefs[j] * Sin2Pi(time_varying_coefs[j] * v.p * v.p, 4 * v.q * v.q)],
          Len(amp_coefs))

(* np.random.uniform(lo, hi, k): the draws the model takes, a rising run from
   the low end and a falling run from the high end of [lo, hi] *)
Uniform(lo, hi, k) ==
    { [j \in 1 .. k |-> lo + (j - 1)], [j \in 1 .. k |-> hi - (j - 1)] }

(* generateSignal's body after its draws *)
generateSignalSwapped(freq_coefs, amp_coefs) ==
    LET times == linspace(T, T * fs)
        zero == Zeros1(T * fs)
        signal == [k \in DOMAIN zero |->
                      IF k \in DOMAIN times
                      THEN FixedSample(amp_coefs, freq_coefs, times[k]) ELSE zero[k]]
    IN  <<signal, amp_coefs, freq_coefs>>

generateSignal(freq_coefs, amp_coefs) ==
    LET times == linspace(T, T * fs)
        zero == Zeros1(T * fs)
        signal == [k \in DOMAIN zero |->
                      IF k \in DOMAIN times
                      THEN FixedSample(amp_coefs, freq_coefs, times[k]) ELSE zero[k]]
    IN  <<signal, freq_coefs, amp_coefs>>

(* generateVaryingTimeSignal's body after its draws *)
generateVaryingTimeSignal(amp_coefs, time_varying_coefs) ==
    LET times == linspace(T, T * fs)
        zero == Zeros1(T * fs)
        signal == [k \in DOMAIN zero |->
                      IF k \in DOMAIN times
                      THEN VaryingSample(amp_coefs, time_varying_coefs, times[k]) ELSE zero[k]]
    IN  <<signal, time_varying_coefs, amp_coefs>>

(* The waveform the formulas of section 4.1 define, evaluated from two
   coefficient rows at the T * fs sample times *)
Waveform(vary, amp, coef) ==
    [k \in 1 .. (T * fs) |->
        IF vary THEN VaryingSample(amp, coef, linspace(T, T * fs)[k])
        ELSE FixedSample(amp, coef, linspace(T, T * fs)[k])]

----------------------------------------------------------------------------
(* The transform collaborator: a callable with a domain attribute.  Spectrum
   folds a signal into Len \div 2 + 1 bins (1-D domain), Wavelet returns one
   row per scale (2-D domain), Cube declares a 3-D domain. *)

Transforms == {"Spectrum", "Wavelet", "Cube"}

DomainLen(tr) == CASE tr = "Spectrum" -> 1 [] tr = "Wavelet" -> 2 [] OTHER -> 3

Apply(tr, x) ==
    CASE tr = "Spectrum" ->
            LET bins == Len(x) \div 2 + 1
            IN  [k \in 1 .. bins |->
                    SumTo([j \in 1 .. Len(x) |-> IF (j - 1) % bins = k - 1 THEN x[j] ELSE 0],
                          Len(x))]
      [] tr = "Wavelet" -> <<x, [k \in 1 .. Len(x) |-> 0 - x[k]]>>
      [] OTHER -> << <<x>> >>

----------------------------------------------------------------------------
(* Outcomes of a call *)

NoResult ==
    [op |-> "none", idx |-> 0, status |-> "none", error |-> "", length |-> 0,
     sample |-> <<>>, label |-> <<>>, plot |-> "none", title |-> <<>>, domain |-> 0]

Raise(op, idx, error) ==
    [NoResult EXCEPT !.op = op, !.idx = idx, !.status = "raise", !.error = error]

ReturnLen(length) ==
    [NoResult EXCEPT !.op = "len", !.status = "return", !.length = length]

ReturnPair(idx, sample, label) ==
    [NoResult EXCEPT !.op = "get", !.idx = idx, !.status = "return",
                     !.sample = sample, !.label = label]

Show(op, idx, plot, title) ==
    [NoResult EXCEPT !.op = op, !.idx = idx, !.status = "return",
                     !.plot = plot, !.title = title]

----------------------------------------------------------------------------
(* The constructor *)

BindTargetSwapped(selector) ==
    CASE selector = "freq" -> "data_params_timevaryingfreq"
      [] selector = "freq_vary" -> "data_params_freq"
      [] selector = "amp" -> "data_params_amp"
      [] OTHER -> Unbound

BindTargetDefault(selector) ==
    CASE selector = "freq_vary" -> "data_params_timevaryingfreq"
      [] selector = "amp" -> "data_params_amp"
      [] OTHER -> "data_params_freq"

(* The if / elif chain that binds self.target; with no branch taken the
   attribute is never set *)
BindTarget(selector) ==
    CASE selector = "freq" -> "data_params_freq"
      [] selector = "freq_vary" -> "data_params_timevaryingfreq"
      [] selector = "amp" -> "data_params_amp"
      [] OTHER -> Unbound

DerefCopy(ref) == Zeros(n, sinusoids)

(* self.target is the table object itself: reading it reads the table *)
Deref(ref) ==
    CASE ref = "data_params_freq" -> data_params_freq
      [] ref = "data_params_timevaryingfreq" -> data_params_timevaryingfreq
      [] OTHER -> data_params_amp

CoefTableFixed(varyFreq) == "data_params_freq"

(* Which table the loop body writes the second value of a generation call to *)
CoefTable(varyFreq) ==
    IF varyFreq THEN "data_params_timevaryingfreq" ELSE "data_params_freq"

Init ==
    /\ pc = "new"
    /\ args = [size |-> 0, sinusoids |-> 0, T |-> 0, fs |-> 0, transform |-> None,
               save |-> FALSE, varyFreq |-> FALSE, target |-> "freq"]
    /\ transform = None
    /\ n = 0
    /\ T = 0
    /\ fs = 0
    /\ sinusoids = 0
    /\ vary_freq = FALSE
    /\ data = <<>>
    /\ data_params_freq = <<>>
    /\ data_params_amp = <<>>
    /\ data_params_timevaryingfreq = <<>>
    /\ target = Unbound
    /\ i = 0
    /\ files = <<>>
    /\ result = NoResult

(* __init__ up to the loop: the fields, the four torch.zeros and the target.
   torch.zeros raises on a negative dimension, and the call ends there. *)
Construct ==
    /\ pc = "new"
    /\ \E a \in [size : Sizes, sinusoids : SinusoidCounts, T : Durations, fs : SampleRates,
                 transform : {None} \cup Transforms, save : BOOLEAN, varyFreq : BOOLEAN,
                 target : Selectors] :
          /\ args' = a
          /\ transform' = a.transform
          /\ n' = a.size
          /\ T' = a.T
          /\ fs' = a.fs
          /\ sinusoids' = a.sinusoids
          /\ vary_freq' = a.varyFreq
          /\ i' = 0
          /\ UNCHANGED files
          /\ IF a.size < 0
             THEN /\ pc' = "raised"
                  /\ result' = Raise("init", 0, "RuntimeError")
                  /\ UNCHANGED <<tables, target>>
             ELSE IF a.sinusoids < 0
             THEN /\ pc' = "raised"
                  /\ result' = Raise("init", 0, "RuntimeError")
                  /\ data' = Zeros(a.size, a.T * a.fs)
                  /\ UNCHANGED <<data_params_freq, data_params_amp,
                                 data_params_timevaryingfreq, target>>
             ELSE /\ pc' = "generate"
                  /\ result' = NoResult
                  /\ data' = Zeros(a.size, a.T * a.fs)
                  /\ data_params_freq' = Zeros(a.size, a.sinusoids)
                  /\ data_params_amp' = Zeros(a.size, a.sinusoids)
                  /\ data_params_timevaryingfreq' = Zeros(a.size, a.sinusoids)
                  /\ target' = BindTarget(a.target)

(* One pass of `for i in range(size)`: a generation call and the three row
   assignments *)
GenerateRow ==
    /\ pc = "generate"
    /\ i < args.size
    /\ \E amp_coefs \in Uniform(AmpLo, AmpHi, sinusoids) :
       \E coefs \in Uniform(IF args.varyFreq THEN ChirpLo ELSE FreqLo, max_freq, sinusoids) :
          LET g == IF args.varyFreq THEN generateVaryingTimeSignal(amp_coefs, coefs)
                   ELSE generateSignal(coefs, amp_coefs)
          IN  /\ data' = Put(data, i, g[1])
              /\ data_params_timevaryingfreq' =
                    IF CoefTable(args.varyFreq) = "data_params_timevaryingfreq"
                    THEN Put(data_params_timevaryingfreq, i, g[2])
                    ELSE data_params_timevaryingfreq
              /\ data_params_freq' =
                    IF CoefTable(args.varyFreq) = "data_params_freq"
                    THEN Put(data_params_freq, i, g[2])
                    ELSE data_params_freq
              /\ data_params_amp' = Put(data_params_amp, i, g[3])
    /\ i' = i + 1
    /\ UNCHANGED <<pc, args, fields, target, files, result>>

FileName(what) == <<what, "-sins-", args.sinusoids, "-len-", args.size, ".pt">>

(* The end of __init__: the loop is over, the three torch.save calls when
   save is set, and the object is returned *)
Save ==
    /\ pc = "generate"
    /\ i >= args.size
    /\ files' = IF args.save
                THEN <<[name |-> FileName("data"), content |-> data],
                       [name |-> FileName("amp"), content |-> data_params_amp],
                       [name |-> FileName("freq"), content |-> data_params_freq]>>
                ELSE files
    /\ pc' = "done"
    /\ UNCHANGED <<args, fields, tables, target, i, result>>

----------------------------------------------------------------------------
(* The operations on a constructed dataset.  A caller holds the object only
   once __init__ has returned (pc = "done"), and makes one call at a time. *)

Indices == (0 - n - 1) .. n

(* __len__ *)
Length ==
    /\ pc = "done"
    /\ result = NoResult
    /\ result' = ReturnLen(n)
    /\ UNCHANGED <<pc, args, fields, tables, target, i, files>>

(* The value of __getitem__(idx): self.data[idx] is evaluated first, then the
   transform, then self.target and its row *)
GetItemValue(idx) ==
    IF ~InRange(idx, Len(data)) THEN Raise("get", idx, "IndexError")
    ELSE IF target = Unbound THEN Raise("get", idx, "AttributeError")
    ELSE ReturnPair(idx,
                    IF transform # None THEN Apply(transform, At(data, idx))
                    ELSE At(data, idx),
                    At(Deref(target), idx))

GetItemInPlace ==
    /\ pc = "done"
    /\ result = NoResult
    /\ \E idx \in Indices :
          /\ result' = GetItemValue(idx)
          /\ data' = IF InRange(idx, Len(data)) /\ transform # None
                     THEN Put(data, idx, Zeros1(T * fs)) ELSE data
    /\ UNCHANGED <<pc, args, fields, data_params_freq, data_params_amp,
                   data_params_timevaryingfreq, target, i, files>>

(* __getitem__ *)
GetItem ==
    /\ pc = "done"
    /\ result = NoResult
    /\ \E idx \in Indices : result' = GetItemValue(idx)
    /\ UNCHANGED <<pc, args, fields, tables, target, i, files>>

(* The figure viewTrueSignal(idx) shows: a line of the raw signal, titled with
   the first chirp rate (varying mode) or the frequency and amplitude rows *)
TrueSignalFigure(op, idx) ==
    IF ~InRange(idx, Len(data)) THEN Raise(op, idx, "IndexError")
    ELSE IF vary_freq
    THEN IF Len(At(data_params_timevaryingfreq, idx)) = 0
         THEN Raise(op, idx, "IndexError")
         ELSE Show(op, idx, "line", <<"f(x)", At(data_params_timevaryingfreq, idx)[1]>>)
    ELSE Show(op, idx, "line",
              <<"freq:", At(data_params_freq, idx), "amp:", At(data_params_amp, idx)>>)

(* viewTrueSignal *)
viewTrueSignal ==
    /\ pc = "done"
    /\ result = NoResult
    /\ \E idx \in Indices : result' = TrueSignalFigure("viewTrueSignal", idx)
    /\ UNCHANGED <<pc, args, fields, tables, target, i, files>>

PlotKindLoose(domainLen) ==
    CASE domainLen = 1 -> "line"
      [] OTHER -> "heatmap"

(* The if / elif / else on len(self.transform.domain) *)
PlotKind(domainLen) ==
    CASE domainLen = 1 -> "line"
      [] domainLen = 2 -> "heatmap"
      [] OTHER -> "ValueError"

TransformedFigure(idx) ==
    LET kind == PlotKind(DomainLen(transform))
        read == [NoResult EXCEPT !.domain = DomainLen(transform)]
    IN  IF kind = "ValueError"
        THEN [read EXCEPT !.op = "viewSignal", !.idx = idx, !.status = "raise",
                          !.error = "ValueError"]
        ELSE IF ~InRange(idx, Len(data))
        THEN [read EXCEPT !.op = "viewSignal", !.idx = idx, !.status = "raise",
                          !.error = "IndexError"]
        ELSE [read EXCEPT !.op = "viewSignal", !.idx = idx, !.status = "return",
                          !.plot = kind,
                          !.title = <<"freq:", At(data_params_freq, idx),
                                      "amp:", At(data_params_amp, idx)>>]

(* viewSignal *)
viewSignal ==
    /\ pc = "done"
    /\ result = NoResult
    /\ \E idx \in Indices :
          result' = IF transform = None THEN TrueSignalFigure("viewSignal", idx)
                    ELSE TransformedFigure(idx)
    /\ UNCHANGED <<pc, args, fields, tables, target, i, files>>

(* The call is over: the caller has its value or its exception *)
Return ==
    /\ pc = "done"
    /\ result # NoResult
    /\ result' = NoResult
    /\ UNCHANGED <<pc, args, fields, tables, target, i, files>>

Next ==
    \/ Construct
    \/ GenerateRow
    \/ Save
    \/ Length
    \/ GetItem
    \/ viewTrueSignal
    \/ viewSignal
    \/ Return

Spec == Init /\ [][Next]_vars

----------------------------------------------------------------------------
(* Vocabulary of the properties *)

Built == pc \in {"generate", "done"}

GetAt(idx) == pc = "done" /\ result.op = "get" /\ result.idx = idx

ValidGet == pc = "done" /\ result.op = "get" /\ 0 <= result.idx /\ result.idx < n

AllPositive(row) == \A j \in DOMAIN row : row[j] > 0

MismatchedTarget ==
    \/ args.target = "freq" /\ args.varyFreq
    \/ args.target = "freq_vary" /\ ~args.varyFreq

----------------------------------------------------------------------------
(* C1: for a recognized selector and 0 <= idx < size, get(idx) returns
   (transform(data[idx]) or data[idx], row idx of the table the selector
   names); the label is the table's current row, so it carries what
   generation wrote; with vary_freq and "freq_vary" it is the row of
   time_varying_frequency_parameters and differs from frequency_parameters'. *)
C1_GetReturnsSampleAndLabel ==
    (ValidGet /\ args.target \in Recognized) =>
        LET r == result.idx + 1
            table == CASE args.target = "freq" -> data_params_freq
                       [] args.target = "freq_vary" -> data_params_timevaryingfreq
                       [] args.target = "amp" -> data_params_amp
        IN  /\ result.status = "return"
            /\ result.sample = IF transform = None THEN data[r] ELSE Apply(transform, data[r])
            /\ result.label = table[r]
            /\ (args.varyFreq /\ args.target = "freq_vary" /\ sinusoids >= 1) =>
                  /\ result.label = data_params_timevaryingfreq[r]
                  /\ result.label # data_params_freq[r]
                  /\ AllPositive(result.label)

C1_Witness ==
    /\ ValidGet
    /\ result.status = "return"
    /\ args.varyFreq
    /\ args.target = "freq_vary"
    /\ transform = "Wavelet"
    /\ sinusoids = 2
    /\ result.idx = 1
    /\ result.label = <<62, 61>>

(* C2 as stated: get(idx) fails with a range error for every idx outside
   [0, size), -1 and size included, for every dataset of size >= 1 (built
   with a recognized selector). *)
C2_RangeErrorOutsideZeroToSize ==
    (pc = "done" /\ result.op = "get" /\ n >= 1 /\ args.target \in Recognized
        /\ ~(0 <= result.idx /\ result.idx < n)) =>
        /\ result.status = "raise"
        /\ result.error = "IndexError"

(* C2 amended: get(idx) fails with a range error, and returns no pair, for
   every idx outside [-size, size), get(size) and get(-size-1) included; for
   -size <= idx < 0 it returns the pair of row size + idx, so get(-1) is the
   last row's pair. *)
C2_RangeErrorOutsideMinusSizeToSize ==
    (pc = "done" /\ result.op = "get") =>
        /\ (result.idx >= n \/ result.idx < 0 - n) =>
              /\ result.status = "raise"
              /\ result.error = "IndexError"
              /\ result.sample = <<>>
              /\ result.label = <<>>
        /\ (0 - n <= result.idx /\ result.idx < 0 /\ args.target \in Recognized) =>
              LET r == n + result.idx + 1
              IN  /\ result.status = "return"
                  /\ result.sample =
                        IF transform = None THEN data[r] ELSE Apply(transform, data[r])
                  /\ result.label = Deref(target)[r]

C2_Witness ==
    /\ pc = "done"
    /\ result.op = "get"
    /\ n = 2
    /\ result.idx = -3
    /\ result.status = "raise"
    /\ result.error = "IndexError"
    /\ args.target \in Recognized

(* C3 as stated: for every valid construction, transform or not, and every
   idx in [0, size), get(idx) returns a sample of length T*fs and a label of
   length sinusoids. *)
C3_SampleLengthAnyTransform ==
    (ValidGet /\ args.target \in Recognized) =>
        /\ result.status = "return"
        /\ Len(result.sample) = T * fs
        /\ Len(result.label) = sinusoids

(* C3 amended: for every valid construction and every idx in [0, size),
   get(idx) returns a label of length sinusoids and, when no transform is
   configured, a sample of length T*fs; with a transform the sample is the
   transform's output for the row data[idx], which has length T*fs. *)
C3_SampleLengthWithoutTransform ==
    (ValidGet /\ args.target \in Recognized) =>
        /\ result.status = "return"
        /\ Len(result.label) = sinusoids
        /\ Len(data[result.idx + 1]) = T * fs
        /\ transform = None => Len(result.sample) = T * fs
        /\ transform # None => result.sample = Apply(transform, data[result.idx + 1])

C3_Witness ==
    /\ ValidGet
    /\ result.status = "return"
    /\ transform = None
    /\ T * fs = 6
    /\ sinusoids = 2
    /\ Len(result.sample) = 6
    /\ Len(result.label) = 2

(* C4: construction is all-or-nothing: whenever the constructor has returned
   a dataset, all size rows of data and of the parameter tables have been
   generated and the target label table is usable; and no operation acts on a
   dataset the constructor has not returned. *)
C4_AllOrNothing ==
    /\ pc = "done" =>
          /\ i = n
          /\ Len(data) = n
          /\ Len(data_params_freq) = n
          /\ Len(data_params_amp) = n
          /\ Len(data_params_timevaryingfreq) = n
          /\ \A r \in 1 .. n : AllPositive(data_params_amp[r])
          /\ target # Unbound
    /\ result.op \in {"len", "get", "viewTrueSignal", "viewSignal"} => pc = "done"

(* C5: with an unrecognized selector (and dimensions torch.zeros accepts)
   construction raises nothing and leaves target unbound; the returned dataset
   has all size rows generated, and saved when save is set; every get(idx)
   fails; len() returns size. *)
C5_UnboundTarget ==
    (args.target \notin Recognized /\ pc # "new" /\ args.size >= 0 /\ args.sinusoids >= 0) =>
        /\ pc # "raised"
        /\ target = Unbound
        /\ pc = "done" =>
              /\ i = args.size
              /\ Len(data) = args.size
              /\ \A r \in 1 .. args.size :
                    /\ AllPositive(data_params_amp[r])
                    /\ AllPositive(IF args.varyFreq THEN data_params_timevaryingfreq[r]
                                   ELSE data_params_freq[r])
                    /\ data[r] = Waveform(args.varyFreq, data_params_amp[r],
                                          IF args.varyFreq THEN data_params_timevaryingfreq[r]
                                          ELSE data_params_freq[r])
              /\ args.save =>
                    /\ Len(files) = 3
                    /\ files[1].content = data
                    /\ files[2].content = data_params_amp
                    /\ files[3].content = data_params_freq
              /\ result.op = "get" => result.status = "raise"
              /\ result.op = "len" => result.status = "return" /\ result.length = args.size

C5_Witness ==
    /\ pc = "done"
    /\ args.target \notin Recognized
    /\ args.save
    /\ n = 2
    /\ sinusoids = 2
    /\ Len(files) = 3
    /\ result.op = "get"
    /\ result.idx = 0
    /\ result.status = "raise"
    /\ result.error = "AttributeError"

(* C6: once the tables are allocated all four have exactly size rows, and
   every generated row i is aligned: data[i] is the waveform of
   amplitude_parameters[i] and the active mode's coefficient row i. *)
C6_RowsAligned ==
    Built =>
        /\ Len(data) = args.size
        /\ Len(data_params_freq) = args.size
        /\ Len(data_params_amp) = args.size
        /\ Len(data_params_timevaryingfreq) = args.size
        /\ \A r \in 1 .. i :
              data[r] = Waveform(vary_freq, data_params_amp[r],
                                 IF vary_freq THEN data_params_timevaryingfreq[r]
                                 ELSE data_params_freq[r])

C6_Witness ==
    /\ pc = "done"
    /\ n = 2
    /\ sinusoids = 2
    /\ T * fs = 6
    /\ ~vary_freq
    /\ data_params_amp[1] # data_params_amp[2]
    /\ data_params_freq[1] # data_params_freq[2]
    /\ data[1] # data[2]
    /\ data[1] # Zeros1(6)

(* C7: the mode decides which coefficient table is written: in time-varying
   mode every generated row of time_varying_frequency_parameters is populated
   and frequency_parameters stays all-zero; in fixed mode the reverse.  The
   mode flag is the constructor's argument for the whole lifetime. *)
C7_OneModeOneTable ==
    Built =>
        /\ vary_freq = args.varyFreq
        /\ vary_freq =>
              /\ data_params_freq = Zeros(args.size, args.sinusoids)
              /\ \A r \in 1 .. i :
                    /\ AllPositive(data_params_timevaryingfreq[r])
                    /\ Len(data_params_timevaryingfreq[r]) = args.sinusoids
        /\ ~vary_freq =>
              /\ data_params_timevaryingfreq = Zeros(args.size, args.sinusoids)
              /\ \A r \in 1 .. i :
                    /\ AllPositive(data_params_freq[r])
                    /\ Len(data_params_freq[r]) = args.sinusoids

C7_Witness ==
    /\ pc = "done"
    /\ vary_freq
    /\ n = 2
    /\ sinusoids = 2
    /\ data_params_freq = <<<<0, 0>>, <<0, 0>>>>
    /\ data_params_timevaryingfreq = <<<<1, 2>>, <<62, 61>>>>

(* C8: every step taken on a returned dataset (len, get, viewTrueSignal,
   viewSignal, failing or not) leaves data, the three parameter tables, the
   target binding, size, sinusoids, T, fs and the mode flag unchanged; so a
   get(idx) just returned is what get(idx) returns on the state it left. *)
C8_NothingMutated ==
    [][pc = "done" =>
          /\ UNCHANGED <<tables, target, fields, files>>
          /\ result'.op = "get" => result' = (GetItemValue(result.idx))'
      ]_vars

C8_Witness ==
    /\ pc = "done"
    /\ result.op = "get"
    /\ result.status = "return"
    /\ transform = "Spectrum"
    /\ n = 2
    /\ T * fs = 6
    /\ data[1] # Zeros1(6)
    /\ result.idx = 0

(* C9: viewSignal(idx) with no transform shows viewTrueSignal(idx)'s figure
   and reads no domain; with a transform and a row idx that exists, a domain
   of length 1 gives a line plot and of length 2 a heatmap; any other domain
   length raises a value error, for every idx, with no plot shown; and the
   step leaves the dataset unchanged. *)
C9_ViewSignalDispatch ==
    /\ [](pc = "done" /\ result.op = "viewSignal" =>
            /\ transform = None =>
                  /\ result.domain = 0
                  /\ result = TrueSignalFigure("viewSignal", result.idx)
            /\ (transform # None /\ 0 - n <= result.idx /\ result.idx < n) =>
                  /\ DomainLen(transform) = 1 =>
                        result.status = "return" /\ result.plot = "line"
                  /\ DomainLen(transform) = 2 =>
                        result.status = "return" /\ result.plot = "heatmap"
            /\ (transform # None /\ DomainLen(transform) \notin {1, 2}) =>
                  /\ result.status = "raise"
                  /\ result.error = "ValueError"
                  /\ result.plot = "none")
    /\ [][result'.op = "viewSignal" => UNCHANGED <<tables, target, fields, files>>]_vars

C9_Witness ==
    /\ pc = "done"
    /\ result.op = "viewSignal"
    /\ transform = "Cube"
    /\ n = 2
    /\ result.idx = 2
    /\ result.status = "raise"
    /\ result.error = "ValueError"
    /\ result.plot = "none"

(* C10: a selector naming the inactive mode's table ("freq" with vary_freq,
   "freq_vary" without) is accepted: construction does not raise, and every
   get(idx), 0 <= idx < size, returns the all-zero label of length sinusoids,
   which is not the coefficient row that generated data[idx]. *)
C10_InactiveTableLabel ==
    (MismatchedTarget /\ pc # "new" /\ args.size >= 0 /\ args.sinusoids >= 0) =>
        /\ pc # "raised"
        /\ ValidGet =>
              /\ result.status = "return"
              /\ result.label = Zeros1(sinusoids)
              /\ sinusoids >= 1 =>
                    /\ result.label # (IF vary_freq THEN data_params_timevaryingfreq
                                       ELSE data_params_freq)[result.idx + 1]
                    /\ data[result.idx + 1] =
                          Waveform(vary_freq, data_params_amp[result.idx + 1],
                                   (IF vary_freq THEN data_params_timevaryingfreq
                                    ELSE data_params_freq)[result.idx + 1])

C10_Witness ==
    /\ ValidGet
    /\ args.target = "freq"
    /\ args.varyFreq
    /\ sinusoids = 2
    /\ n = 2
    /\ result.idx = 1
    /\ result.status = "return"
    /\ result.label = <<0, 0>>
    /\ data_params_timevaryingfreq[2] = <<62, 61>>

====
